---- MODULE Spec2Model ----
(***************************************************************************)
(* Nutrition Tracker: the CSV entry store (data.py) and the menu handlers  *)
(* that drive it (main.py, ui.show_entries).                               *)
(*                                                                         *)
(* The backing file is modelled as the sequence of records csv.reader      *)
(* yields from it (each record a sequence of field strings, a blank line   *)
(* the empty record), together with the existence of the file and of its   *)
(* directory.  Time is counted in whole hours; a calendar date is the      *)
(* hour count divided by 24.  Floats are fixed-point hundredths.           *)
(***************************************************************************)
EXTENDS Integers, Sequences, FiniteSets, TLC

VARIABLES
    dirExists,    \* the directory of csv_file_path exists
    fileExists,   \* csv_file_path exists
    file,         \* its records, header row included (<<>> when absent)
    now,          \* datetime.datetime.now(), in hours
    defaultDate,  \* the default of get_entries_by_date's parameter `date`,
                  \* evaluated once, when the module is imported
    op,           \* the operation that ran last ("menu": none since the menu)
    arg,          \* its input
    ret           \* its outcome: [exc |-> ..., val |-> ...]

vars == <<dirExists, fileExists, file, now, defaultDate, op, arg, ret>>

----------------------------------------------------------------------------
(* Bounds *)

MaxInitRows == 2      \* data rows of the store the program starts on
MaxTicks == 1         \* hours the clock advances during a run

StartNow == (7 * 24) + 23         \* day 7, 23:00
MaxRows == MaxInitRows + 1        \* data rows the file may grow to

----------------------------------------------------------------------------
(* Python values *)

NoneVal == "<None>"           \* Python's None (DictReader's restval)
RestKey == "<restkey>"        \* the key None (DictReader's restkey)

Return(v) == [exc |-> "None", val |-> v]
Raise(e) == [exc |-> e, val |-> <<>>]

\* datetime.date(): the calendar date of a time
DateOf(t) == t \div 24

\* str(datetime): what csv.writer writes for a datetime
DateTimeStr(t) ==
    "D" \o ToString(t \div 24) \o " " \o ToString(t % 24) \o ":00:00"

\* repr(float) of a value of at most two decimals, v in hundredths
FloatStr(v) ==
    LET frac == v % 100
    IN  ToString(v \div 100) \o "." \o
            (IF frac % 10 = 0 THEN ToString(frac \div 10)
             ELSE IF frac < 10 THEN "0" \o ToString(frac)
             ELSE ToString(frac))

\* the times and floats whose spellings occur in the model
TOld == StartNow - 169
TToday == StartNow - 2
TWeekAgo == StartNow - (7 * 24)
TSixDays == StartNow - ((6 * 24) + 23)
TYesterday == StartNow - 24
Times == {TOld, TWeekAgo, TSixDays, TYesterday, TToday}
             \cup (StartNow .. (StartNow + MaxTicks + 1))
Floats == {0, 100, 200, 300, 400, 500, 1000, 1050, 1200, 1800, 6000, 21000, 32000}

\* the strings that parse as a datetime, with the time each one spells
IsoStrings == [s \in {DateTimeStr(t) : t \in Times} |->
                  CHOOSE t \in Times : DateTimeStr(t) = s]

\* the strings that parse as a float: "10.0" and "10" both spell ten
Spells(s, v) == s = FloatStr(v) \/ (v % 100 = 0 /\ s = ToString(v \div 100))

FloatStrings ==
    [s \in {FloatStr(v) : v \in Floats}
            \cup {ToString(v \div 100) : v \in {w \in Floats : w % 100 = 0}} |->
        CHOOSE v \in Floats : Spells(s, v)]

\* datetime.datetime.fromisoformat(s)
fromisoformat(s) ==
    IF s = NoneVal THEN Raise("TypeError")
    ELSE IF s \in DOMAIN IsoStrings THEN Return(IsoStrings[s])
    ELSE Raise("ValueError")

\* float(s)
float(s) ==
    IF s = NoneVal THEN Raise("TypeError")
    ELSE IF s \in DOMAIN FloatStrings THEN Return(FloatStrings[s])
    ELSE Raise("ValueError")

\* s.strip(): only its truth value is used
strip(s) == IF s \in {"", " ", "  "} THEN "" ELSE s

----------------------------------------------------------------------------
(* csv *)

Header == <<"Name", "Protein", "Fat", "Carbs", "Calories", "DateTime">>

\* csv.writer.writerow: each value is written as its str(), None as ""
\* a value is <<"str", s>>, <<"float", v>> or <<"datetime", t>>
CsvField(x) ==
    CASE x[1] = "str" -> (IF x[2] = NoneVal THEN "" ELSE x[2])
      [] x[1] = "float" -> FloatStr(x[2])
      [] x[1] = "datetime" -> DateTimeStr(x[2])

\* (mutant) the Fat and Carbs columns written in each other's place
writerow_Swapped(data) ==
    [i \in 1 .. Len(data) |->
        CsvField(data[IF i = 3 THEN 4 ELSE IF i = 4 THEN 3 ELSE i])]

writerow(data) == [i \in 1 .. Len(data) |-> CsvField(data[i])]

\* one row of csv.DictReader: dict(zip(fieldnames, row)), missing values
\* None, surplus values a list under the key None
DictRow(fieldnames, row) ==
    LET lf == Len(fieldnames)
        lr == Len(row)
        keys == {fieldnames[i] : i \in 1 .. lf}
        last(k) == CHOOSE i \in 1 .. lf :
                      /\ fieldnames[i] = k
                      /\ \A j \in 1 .. lf : fieldnames[j] = k => j <= i
    IN  [k \in keys \cup (IF lf < lr THEN {RestKey} ELSE {}) |->
            IF k = RestKey THEN SubSeq(row, lf + 1, lr)
            ELSE IF last(k) <= lr THEN row[last(k)]
            ELSE NoneVal]

\* csv.DictReader(file): the first record names the fields, blank records
\* after it are skipped
DictReader(f) ==
    IF f = <<>> THEN <<>>
    ELSE LET body == SelectSeq(Tail(f), LAMBDA r : r # <<>>)
         IN  [i \in 1 .. Len(body) |-> DictRow(f[1], body[i])]

\* row.get(key, default)
Get(row, key, default) == IF key \in DOMAIN row THEN row[key] ELSE default

----------------------------------------------------------------------------
(* data.py: the write path and the store's lifecycle.  Each operator       *)
(* gives the outcome and the file system it leaves behind.                 *)

FS(d, e, f) == [dir |-> d, exists |-> e, rows |-> f]

\* (mutant) the file opened with "w": the row replaces the contents
write_nutrition_data_Truncating(fs, data) ==
    IF ~fs.dir THEN [exc |-> "FileNotFoundError", fs |-> fs]
    ELSE [exc |-> "None", fs |-> FS(TRUE, TRUE, <<writerow(data)>>)]

\* open(csv_file_path, "a") creates a missing file, not a missing directory
write_nutrition_data(fs, data) ==
    IF ~fs.dir THEN [exc |-> "FileNotFoundError", fs |-> fs]
    ELSE [exc |-> "None",
          fs |-> FS(TRUE, TRUE, Append(fs.rows, writerow(data)))]

\* (mutant) the file created without its header row
create_csv_file_NoHeader(fs) == FS(TRUE, TRUE, <<>>)

\* os.makedirs(..., exist_ok=True), then the file opened with "w"
create_csv_file(fs) == FS(TRUE, TRUE, <<Header>>)

\* the loop ends once open(csv_file_path, "r") succeeds
RECURSIVE check_csv_file_exists(_)
check_csv_file_exists(fs) ==
    IF fs.exists THEN fs ELSE check_csv_file_exists(create_csv_file(fs))

----------------------------------------------------------------------------
(* data.py: the read path.  Every scan opens the file (FileNotFoundError   *)
(* when it is absent) and walks csv.DictReader's rows in file order.       *)

\* `not row.get('Name', '').strip()`: None has no strip()
NameGate(row) ==
    LET n == Get(row, "Name", "")
    IN  IF n = NoneVal THEN Raise("AttributeError") ELSE Return(strip(n) = "")

\* (mutant) the name tested without strip()
RECURSIVE AllLoop_NoStrip(_, _, _)
AllLoop_NoStrip(reader, i, entries) ==
    IF i > Len(reader) THEN Return(entries)
    ELSE IF Get(reader[i], "Name", "") = ""
         THEN AllLoop_NoStrip(reader, i + 1, entries)
    ELSE AllLoop_NoStrip(reader, i + 1, Append(entries, reader[i]))

RECURSIVE AllLoop(_, _, _)
AllLoop(reader, i, entries) ==
    IF i > Len(reader) THEN Return(entries)
    ELSE LET g == NameGate(reader[i])
         IN  IF g.exc # "None" THEN Raise(g.exc)
             ELSE IF g.val THEN AllLoop(reader, i + 1, entries)
             ELSE AllLoop(reader, i + 1, Append(entries, reader[i]))

get_all_entries(fs) ==
    IF ~fs.exists THEN Raise("FileNotFoundError")
    ELSE AllLoop(DictReader(fs.rows), 1, <<>>)

\* row['DateTime'] parsed: KeyError when the column is missing
ParseDateTime(row) ==
    IF "DateTime" \notin DOMAIN row THEN Raise("KeyError")
    ELSE fromisoformat(row["DateTime"])

\* (mutant) no `continue` after the name check: a row failing both checks
\* is counted twice
RECURSIVE ScanLoop_CountsTwice(_, _, _)
ScanLoop_CountsTwice(reader, i, corrupt_count) ==
    IF i > Len(reader) THEN Return(corrupt_count)
    ELSE LET g == NameGate(reader[i])
             p == fromisoformat(Get(reader[i], "DateTime", ""))
         IN  IF g.exc # "None" THEN Raise(g.exc)
             ELSE ScanLoop_CountsTwice(reader, i + 1,
                      corrupt_count + (IF g.val THEN 1 ELSE 0)
                                    + (IF p.exc # "None" THEN 1 ELSE 0))

RECURSIVE ScanLoop(_, _, _)
ScanLoop(reader, i, corrupt_count) ==
    IF i > Len(reader) THEN Return(corrupt_count)
    ELSE LET g == NameGate(reader[i])
             p == fromisoformat(Get(reader[i], "DateTime", ""))
         IN  IF g.exc # "None" THEN Raise(g.exc)
             ELSE IF g.val THEN ScanLoop(reader, i + 1, corrupt_count + 1)
             ELSE IF p.exc \in {"ValueError", "TypeError", "KeyError"}
                  THEN ScanLoop(reader, i + 1, corrupt_count + 1)
             ELSE IF p.exc # "None" THEN Raise(p.exc)
             ELSE ScanLoop(reader, i + 1, corrupt_count)

scan_csv_for_corruption(fs) ==
    IF ~fs.exists THEN Raise("FileNotFoundError")
    ELSE ScanLoop(DictReader(fs.rows), 1, 0)

\* the body of the try block of a timestamp filter: does the row match
ByDateTry(row, date) ==
    LET g == NameGate(row)
        p == ParseDateTime(row)
    IN  IF g.exc # "None" THEN g
        ELSE IF g.val THEN Return(FALSE)
        ELSE IF p.exc # "None" THEN p
        ELSE Return(DateOf(p.val) = date)

RECURSIVE ByDateLoop(_, _, _, _)
ByDateLoop(reader, i, date, entries) ==
    IF i > Len(reader) THEN Return(entries)
    ELSE LET t == ByDateTry(reader[i], date)
         IN  IF t.exc \in {"ValueError", "KeyError"}
             THEN ByDateLoop(reader, i + 1, date, entries)
             ELSE IF t.exc # "None" THEN Raise(t.exc)
             ELSE IF t.val
                  THEN ByDateLoop(reader, i + 1, date, Append(entries, reader[i]))
             ELSE ByDateLoop(reader, i + 1, date, entries)

get_entries_by_date(fs, date) ==
    IF ~fs.exists THEN Raise("FileNotFoundError")
    ELSE ByDateLoop(DictReader(fs.rows), 1, date, <<>>)

WeekTry(row, one_week_ago) ==
    LET g == NameGate(row)
        p == ParseDateTime(row)
    IN  IF g.exc # "None" THEN g
        ELSE IF g.val THEN Return(FALSE)
        ELSE IF p.exc # "None" THEN p
        ELSE Return(p.val >= one_week_ago)

RECURSIVE WeekLoop(_, _, _, _)
WeekLoop(reader, i, one_week_ago, entries) ==
    IF i > Len(reader) THEN Return(entries)
    ELSE LET t == WeekTry(reader[i], one_week_ago)
         IN  IF t.exc \in {"ValueError", "KeyError"}
             THEN WeekLoop(reader, i + 1, one_week_ago, entries)
             ELSE IF t.exc # "None" THEN Raise(t.exc)
             ELSE IF t.val
                  THEN WeekLoop(reader, i + 1, one_week_ago, Append(entries, reader[i]))
             ELSE WeekLoop(reader, i + 1, one_week_ago, entries)

\* timedelta(days=7) is 168 hours
get_entries_within_week(fs, t) ==
    IF ~fs.exists THEN Raise("FileNotFoundError")
    ELSE WeekLoop(DictReader(fs.rows), 1, t - (7 * 24), <<>>)

RECURSIVE ByNameLoop(_, _, _)
ByNameLoop(reader, i, name) ==
    IF i > Len(reader) THEN Return(<<>>)
    ELSE LET g == NameGate(reader[i])
         IN  IF g.exc # "None" THEN Raise(g.exc)
             ELSE IF g.val THEN ByNameLoop(reader, i + 1, name)
             ELSE IF reader[i]["Name"] = name THEN Return(<<reader[i]>>)
             ELSE ByNameLoop(reader, i + 1, name)

get_entry_by_name(fs, name) ==
    IF ~fs.exists THEN Raise("FileNotFoundError")
    ELSE ByNameLoop(DictReader(fs.rows), 1, name)

----------------------------------------------------------------------------
(* data.py: the statistics *)

SumFields == <<"Protein", "Fat", "Carbs", "Calories">>

ZeroTotals == [k \in {"Protein", "Fat", "Carbs", "Calories"} |-> 0]

\* the try block of the summing loop: the four `+=` in order, up to the
\* first float() that raises
RECURSIVE AddFields(_, _, _)
AddFields(tot, entry, k) ==
    IF k > Len(SumFields) THEN [exc |-> "None", tot |-> tot]
    ELSE LET x == float(Get(entry, SumFields[k], "0"))
         IN  IF x.exc # "None" THEN [exc |-> x.exc, tot |-> tot]
             ELSE AddFields([tot EXCEPT ![SumFields[k]] = @ + x.val], entry, k + 1)

\* `for entry in entries: try: ... except ValueError: pass`
RECURSIVE SumLoop(_, _, _)
SumLoop(entries, i, tot) ==
    IF i > Len(entries) THEN [exc |-> "None", tot |-> tot]
    ELSE LET a == AddFields(tot, entries[i], 1)
         IN  IF a.exc \in {"None", "ValueError"} THEN SumLoop(entries, i + 1, a.tot)
             ELSE [exc |-> a.exc, tot |-> a.tot]

\* round(x, 2): a sum of hundredths is a whole number of hundredths
Round2(v) == v

\* round(total / count, 2), in hundredths
Round2Div(total, count) == ((2 * total) + count) \div (2 * count)

\* get_daily_totals() calls get_entries_by_date() with no argument: `dflt`
\* is the parameter's default.  None is the empty list (both are falsy).
get_daily_totals(fs, dflt) ==
    LET e == get_entries_by_date(fs, dflt)
        s == SumLoop(e.val, 1, ZeroTotals)
    IN  IF e.exc # "None" THEN e
        ELSE IF e.val = <<>> THEN Return(<<>>)
        ELSE IF s.exc # "None" THEN Raise(s.exc)
        ELSE Return(<<[Name |-> "Daily Total",
                       Protein |-> Round2(s.tot["Protein"]),
                       Fat |-> Round2(s.tot["Fat"]),
                       Carbs |-> Round2(s.tot["Carbs"]),
                       Calories |-> Round2(s.tot["Calories"])]>>)

get_weekly_averages(fs, t) ==
    LET e == get_entries_within_week(fs, t)
        s == SumLoop(e.val, 1, ZeroTotals)
        count == Len(e.val)
    IN  IF e.exc # "None" THEN e
        ELSE IF e.val = <<>> THEN Return(<<>>)
        ELSE IF s.exc # "None" THEN Raise(s.exc)
        ELSE Return(<<[Name |-> "Weekly Average",
                       Protein |-> Round2Div(s.tot["Protein"], count),
                       Fat |-> Round2Div(s.tot["Fat"], count),
                       Carbs |-> Round2Div(s.tot["Carbs"], count),
                       Calories |-> Round2Div(s.tot["Calories"], count)]>>)

----------------------------------------------------------------------------
(* main.py: the menu handlers.  Each gives the exception it lets through   *)
(* ("None" when it returns), the file system it leaves and what it told    *)
(* the user interface.                                                     *)

Handled(e, fs, ui) == [exc |-> e, fs |-> fs, ui |-> ui]

\* (mutant) the append tried once more after the store is created
handle_add_entry_Retrying(fs, name, protein, fat, carbs, calories, t) ==
    LET data == <<<<"str", name>>, <<"float", protein>>, <<"float", fat>>,
                  <<"float", carbs>>, <<"float", calories>>, <<"datetime", t>>>>
        w == write_nutrition_data(fs, data)
    IN  IF w.exc = "None" THEN Handled("None", w.fs, "add_nutrition_successful")
        ELSE Handled("None", write_nutrition_data(create_csv_file(fs), data).fs,
                     "add_nutrition_failed")

handle_add_entry(fs, name, protein, fat, carbs, calories, t) ==
    LET w == write_nutrition_data(fs,
                 <<<<"str", name>>, <<"float", protein>>, <<"float", fat>>,
                   <<"float", carbs>>, <<"float", calories>>, <<"datetime", t>>>>)
    IN  IF w.exc = "None" THEN Handled("None", w.fs, "add_nutrition_successful")
        ELSE Handled("None", create_csv_file(fs), "add_nutrition_failed")

handle_reuse_entry(fs, name, t) ==
    LET e == get_entry_by_name(fs, name)
        entry == e.val
        w == write_nutrition_data(fs,
                 <<<<"str", entry[1]["Name"]>>, <<"str", entry[1]["Protein"]>>,
                   <<"str", entry[1]["Fat"]>>, <<"str", entry[1]["Carbs"]>>,
                   <<"str", entry[1]["Calories"]>>, <<"datetime", t>>>>)
    IN  IF e.exc = "FileNotFoundError"
        THEN Handled("None", create_csv_file(fs), "add_nutrition_failed")
        ELSE IF e.exc = "ValueError" THEN Handled("None", fs, "add_nutrition_failed")
        ELSE IF e.exc # "None" THEN Handled(e.exc, fs, "")
        ELSE IF entry = <<>> THEN Handled("None", fs, "Recipe Not Found")
        ELSE IF \E k \in {"Protein", "Fat", "Carbs", "Calories"} : k \notin DOMAIN entry[1]
             THEN Handled("KeyError", fs, "")
        ELSE IF w.exc = "None" THEN Handled("None", w.fs, "add_nutrition_successful")
        ELSE Handled("None", create_csv_file(fs), "add_nutrition_failed")

\* ui.show_entries: the listing, then the corruption warning; an IOError
\* of the scan is swallowed
show_entries(fs, result) ==
    LET c == scan_csv_for_corruption(fs)
    IN  IF c.exc = "FileNotFoundError"
        THEN Handled("None", fs, [shown |-> result, warning |-> 0])
        ELSE IF c.exc # "None" THEN Handled(c.exc, fs, [shown |-> result, warning |-> 0])
        ELSE Handled("None", fs, [shown |-> result, warning |-> c.val])

handle_view_entries(fs) ==
    LET r == get_all_entries(fs)
    IN  IF r.exc = "FileNotFoundError"
        THEN Handled("None", create_csv_file(fs), "format_entries_failed")
        ELSE IF r.exc = "IndexError" THEN Handled("None", fs, "format_entries_failed")
        ELSE IF r.exc # "None" THEN Handled(r.exc, fs, "")
        ELSE show_entries(fs, r.val)

\* visualization.create_nutrition_graph reads the last week's entries and
\* never writes the store
create_nutrition_graph(fs, t) ==
    LET e == get_entries_within_week(fs, t)
    IN  IF e.exc # "None" THEN Handled(e.exc, fs, "")
        ELSE IF e.val = <<>> THEN Handled("None", fs, "format_entries_failed")
        ELSE Handled("None", fs, "chart")

\* one pass of the statistics menu, ui.get_int_input having returned a
\* choice of 1 .. 4
handle_statistics(fs, stats_choice, t, dflt) ==
    LET r == CASE stats_choice = 1 -> get_daily_totals(fs, dflt)
               [] stats_choice = 2 -> get_weekly_averages(fs, t)
               [] OTHER -> Return(<<>>)
        h == IF stats_choice \in {1, 2}
             THEN (IF r.exc = "None" THEN show_entries(fs, r.val)
                   ELSE Handled(r.exc, fs, ""))
             ELSE IF stats_choice = 3 THEN create_nutrition_graph(fs, t)
             ELSE Handled("None", fs, "clear_terminal")
    IN  IF h.exc = "FileNotFoundError"
        THEN Handled("None", create_csv_file(fs), "format_entries_failed")
        ELSE IF h.exc \in {"IOError", "ValueError"}
             THEN Handled("None", fs, "format_entries_failed")
        ELSE h

----------------------------------------------------------------------------
(* The state machine *)

CurFS == FS(dirExists, fileExists, file)

SetFS(fs) ==
    /\ dirExists' = fs.dir
    /\ fileExists' = fs.exists
    /\ file' = fs.rows

\* rows an existing store may hold when the program starts: well-formed
\* entries and rows damaged by hand
Palette ==
    { <<"Oatmeal", "10.0", "5.0", "60.0", "320.0", DateTimeStr(TToday)>>,
      <<"Eggs", "18.0", "12.0", "1.0", "210.0", DateTimeStr(TToday)>>,
      <<"Oatmeal", "1.0", "2.0", "3.0", "4.0", DateTimeStr(TOld)>>,
      <<"", "1.0", "2.0", "3.0", "4.0", DateTimeStr(TToday)>>,
      <<" ", "1.0", "2.0", "3.0", "4.0", "garbage">>,
      <<"Eggs", "18", "12", "1", "210", "garbage">>,
      <<"Eggs", "18.0", "12.0", "1.0", "210.0">>,
      <<"Oatmeal", "10.0", "abc", "60.0", "320.0", DateTimeStr(TToday)>>,
      <<>> }

RowSeqs(n) == UNION {[1 .. k -> Palette] : k \in 0 .. n}

\* what ui.get_string_input and ui.get_float_input may hand to the handlers
InputNames == {"Pasta", " "}
InputFloats == <<1050, 0, 1200, 400>>
LookupNames == {"Oatmeal", "Eggs", "Pasta"}
QueryDates == {DateOf(TToday), DateOf(TToday) + 1}

Init ==
    /\ now = StartNow
    /\ defaultDate = DateOf(StartNow)
    /\ op = "menu"
    /\ arg = <<>>
    /\ ret = Return(<<>>)
    /\ \/ dirExists = FALSE /\ fileExists = FALSE /\ file = <<>>
       \/ dirExists = TRUE /\ fileExists = FALSE /\ file = <<>>
       \/ dirExists = TRUE /\ fileExists = TRUE /\ file = <<>>
       \/ /\ dirExists = TRUE
          /\ fileExists = TRUE
          /\ \E rows \in RowSeqs(MaxInitRows) : file = <<Header>> \o rows

\* the clock advances
Tick ==
    /\ op = "menu"
    /\ now < StartNow + MaxTicks
    /\ now' = now + 1
    /\ UNCHANGED <<dirExists, fileExists, file, defaultDate, op, arg, ret>>

\* the outcome of an operation stays on display until the menu is shown again
ShowMainMenu ==
    /\ op # "menu"
    /\ op' = "menu"
    /\ arg' = <<>>
    /\ ret' = Return(<<>>)
    /\ UNCHANGED <<dirExists, fileExists, file, now, defaultDate>>

Query(name, input, result) ==
    /\ op = "menu"
    /\ op' = name
    /\ arg' = input
    /\ ret' = result
    /\ UNCHANGED <<dirExists, fileExists, file, now, defaultDate>>

Handler(name, input, h) ==
    /\ op = "menu"
    /\ op' = name
    /\ arg' = input
    /\ ret' = [exc |-> h.exc, val |-> h.ui]
    /\ SetFS(h.fs)
    /\ UNCHANGED <<now, defaultDate>>

CheckCsvFileExists ==
    /\ op = "menu"
    /\ op' = "check_csv_file_exists"
    /\ arg' = <<>>
    /\ ret' = Return(<<>>)
    /\ SetFS(check_csv_file_exists(CurFS))
    /\ UNCHANGED <<now, defaultDate>>

HandleAddEntry ==
    /\ Len(file) <= MaxRows
    /\ \E name \in InputNames :
          Handler("handle_add_entry", <<name>>,
                  handle_add_entry(CurFS, name, InputFloats[1], InputFloats[2],
                                   InputFloats[3], InputFloats[4], now))

HandleReuseEntry ==
    /\ Len(file) <= MaxRows
    /\ \E name \in LookupNames :
          Handler("handle_reuse_entry", <<name>>, handle_reuse_entry(CurFS, name, now))

HandleViewEntries ==
    Handler("handle_view_entries", <<>>, handle_view_entries(CurFS))

HandleStatistics ==
    \E stats_choice \in 1 .. 4 :
        Handler("handle_statistics", <<stats_choice>>,
                handle_statistics(CurFS, stats_choice, now, defaultDate))

GetAllEntries == Query("get_all_entries", <<>>, get_all_entries(CurFS))

ScanCsvForCorruption ==
    Query("scan_csv_for_corruption", <<>>, scan_csv_for_corruption(CurFS))

\* with an explicit date, or with none (the default applies)
GetEntriesByDate ==
    \/ \E date \in QueryDates :
          Query("get_entries_by_date", <<"date", date>>, get_entries_by_date(CurFS, date))
    \/ Query("get_entries_by_date", <<"default">>, get_entries_by_date(CurFS, defaultDate))

GetEntriesWithinWeek ==
    Query("get_entries_within_week", <<>>, get_entries_within_week(CurFS, now))

GetEntryByName ==
    \E name \in LookupNames :
        Query("get_entry_by_name", <<name>>, get_entry_by_name(CurFS, name))

GetDailyTotals == Query("get_daily_totals", <<>>, get_daily_totals(CurFS, defaultDate))

GetWeeklyAverages == Query("get_weekly_averages", <<>>, get_weekly_averages(CurFS, now))

Next ==
    \/ Tick
    \/ ShowMainMenu
    \/ CheckCsvFileExists
    \/ HandleAddEntry
    \/ HandleReuseEntry
    \/ HandleViewEntries
    \/ HandleStatistics
    \/ GetAllEntries
    \/ ScanCsvForCorruption
    \/ GetEntriesByDate
    \/ GetEntriesWithinWeek
    \/ GetEntryByName
    \/ GetDailyTotals
    \/ GetWeeklyAverages

Spec == Init /\ [][Next]_vars

----------------------------------------------------------------------------
(* The store as the specification describes it: a header row followed by   *)
(* data rows (a blank line is no row), each with a name in the first       *)
(* column and a timestamp in the sixth.                                    *)

HasHeader == fileExists /\ file # <<>> /\ file[1] = Header

DataRows(f) == SelectSeq(Tail(f), LAMBDA r : r # <<>>)

RowName(r) == r[1]
RowTimestamp(r) == IF Len(r) >= 6 THEN r[6] ELSE NoneVal

BlankName(s) == strip(s) = ""
Parseable(s) == fromisoformat(s).exc = "None"

\* a corrupted record: empty name or a timestamp that cannot be parsed
CorruptedRow(r) == BlankName(RowName(r)) \/ ~Parseable(RowTimestamp(r))

\* the same, of a row as a read operation returns it
CorruptedEntry(e) ==
    \/ BlankName(Get(e, "Name", ""))
    \/ ~Parseable(Get(e, "DateTime", NoneVal))

\* the row an add of `name` at time t writes
AddedRow(name, t) ==
    <<name, FloatStr(InputFloats[1]), FloatStr(InputFloats[2]),
      FloatStr(InputFloats[3]), FloatStr(InputFloats[4]), DateTimeStr(t)>>

Occurrences(f, row) == Cardinality({i \in 1 .. Len(f) : f[i] = row})

IsPrefix(s, t) == Len(s) <= Len(t) /\ SubSeq(t, 1, Len(s)) = s

AddFailed == op = "handle_add_entry" /\ ret.val = "add_nutrition_failed"

----------------------------------------------------------------------------
(* C1 *)

\* C1 (as stated): when the append of an add fails because the store is not
\* found, the caller creates the store and retries, so that afterwards the
\* store holds the new entry exactly once.
C1_RetriedOnce ==
    AddFailed => Occurrences(file, AddedRow(arg[1], now)) = 1

\* C1 (amended): the append of an add fails exactly when the directory of
\* the store is missing; the caller then creates the store and reports the
\* failure without retrying, leaving the header row alone and the new entry
\* absent.  Otherwise the entry is appended once and success is reported.
C1_CreatedNotRetried ==
    [][op' = "handle_add_entry" =>
          IF dirExists
          THEN /\ ret'.val = "add_nutrition_successful"
               /\ fileExists'
               /\ file' = Append(file, AddedRow(arg'[1], now))
          ELSE /\ ret'.val = "add_nutrition_failed"
               /\ dirExists' /\ fileExists'
               /\ file' = <<Header>>
               /\ Occurrences(file', AddedRow(arg'[1], now)) = 0]_vars

C1_Witness == AddFailed /\ file = <<Header>>

----------------------------------------------------------------------------
(* C2 *)

TimestampQueries ==
    {"get_entries_by_date", "get_entries_within_week",
     "get_daily_totals", "get_weekly_averages"}

\* C2: on any store content the timestamp queries complete normally, a
\* malformed row (timestamp unparseable, or fewer than six fields) being
\* omitted and never raised as an error.
C2_MalformedRowNeverRaised ==
    (op \in TimestampQueries /\ fileExists) =>
        /\ ret.exc = "None"
        /\ op \in {"get_entries_by_date", "get_entries_within_week"} =>
              \A i \in 1 .. Len(ret.val) :
                  Parseable(Get(ret.val[i], "DateTime", NoneVal))

----------------------------------------------------------------------------
(* C3 *)

Coerces(e) ==
    \A k \in {"Protein", "Fat", "Carbs", "Calories"} :
        float(Get(e, k, "0")).exc = "None"

\* the sum of one field over the rows all four of whose fields coerce
RECURSIVE WholeRowSum(_, _)
WholeRowSum(entries, k) ==
    IF entries = <<>> THEN 0
    ELSE (IF Coerces(Head(entries)) THEN float(Head(entries)[k]).val ELSE 0)
            + WholeRowSum(Tail(entries), k)

\* C3: in the daily totals and the weekly averages a row one of whose four
\* numbers fails to coerce adds nothing to any sum, every other matching
\* row adds all four of its values, and the query does not fail.
C3_RowExcludedAsAWhole ==
    /\ (op = "get_daily_totals" /\ fileExists) =>
          LET e == get_entries_by_date(CurFS, defaultDate)
          IN  (e.exc = "None" /\ e.val # <<>>) =>
                 /\ ret.exc = "None"
                 /\ \A k \in {"Protein", "Fat", "Carbs", "Calories"} :
                       ret.val[1][k] = WholeRowSum(e.val, k)
    /\ (op = "get_weekly_averages" /\ fileExists) =>
          LET e == get_entries_within_week(CurFS, now)
          IN  (e.exc = "None" /\ e.val # <<>>) =>
                 /\ ret.exc = "None"
                 /\ \A k \in {"Protein", "Fat", "Carbs", "Calories"} :
                       ret.val[1][k] = Round2Div(WholeRowSum(e.val, k), Len(e.val))

----------------------------------------------------------------------------
(* C4 *)

\* C4: called without a date, get_entries_by_date and get_daily_totals
\* filter on the calendar date at the time of the call, also after the
\* date has advanced since the program was started.
C4_DefaultDateIsToday ==
    /\ (op = "get_entries_by_date" /\ arg[1] = "default") =>
          ret = get_entries_by_date(CurFS, DateOf(now))
    /\ op = "get_daily_totals" => ret = get_daily_totals(CurFS, DateOf(now))

----------------------------------------------------------------------------
(* C5 *)

CorruptedCount(f) ==
    Cardinality({i \in 1 .. Len(DataRows(f)) : CorruptedRow(DataRows(f)[i])})

\* C5: scan_csv_for_corruption returns the number of data rows whose name
\* is empty or whitespace-only or whose timestamp is unparseable, a row
\* failing both checks counted once, and 0 without error when there is none.
C5_CountsCorruptedRows ==
    (op = "scan_csv_for_corruption" /\ HasHeader) =>
        ret.exc = "None" /\ ret.val = CorruptedCount(file)

\* a scan of a store with a row that fails both checks
C5_Witness ==
    /\ op = "scan_csv_for_corruption"
    /\ HasHeader
    /\ \E i \in 1 .. Len(DataRows(file)) :
          /\ BlankName(RowName(DataRows(file)[i]))
          /\ ~Parseable(RowTimestamp(DataRows(file)[i]))
    /\ \E i \in 1 .. Len(DataRows(file)) : ~CorruptedRow(DataRows(file)[i])
    /\ ret.val = 1

----------------------------------------------------------------------------
(* C6 *)

NamedRows(f) == SelectSeq(DataRows(f), LAMBDA r : ~BlankName(RowName(r)))

\* the entry `e` carries the six columns of the row r (None where r is short)
CarriesRow(e, r) ==
    \A k \in 1 .. Len(Header) :
        /\ Header[k] \in DOMAIN e
        /\ e[Header[k]] = (IF k <= Len(r) THEN r[k] ELSE NoneVal)

----------------------------------------------------------------------------
(* C7 *)

ReadOperations ==
    {"get_all_entries", "get_entry_by_name",
     "get_entries_by_date", "get_entries_within_week"}

\* C7: no row a read operation returns is a corrupted record.
C7_NoCorruptedRecordSurfaced ==
    (op \in ReadOperations /\ ret.exc = "None") =>
        \A i \in 1 .. Len(ret.val) : ~CorruptedEntry(ret.val[i])

----------------------------------------------------------------------------
(* C8 *)

\* the data rows the file physically holds
StoredRows == IF HasHeader THEN Tail(file) ELSE file

\* C8: the store is append-only: across every operation of the main loop,
\* the recovery paths that create the store included, the data rows
\* present before are a prefix of the data rows present after.
C8_AppendOnly == [][IsPrefix(StoredRows, StoredRows')]_vars

\* an append to a store that already held rows
C8_Witness ==
    /\ op \in {"handle_add_entry", "handle_reuse_entry"}
    /\ ret.val = "add_nutrition_successful"
    /\ HasHeader
    /\ Len(file) >= 3

----------------------------------------------------------------------------
(* C9 *)

AddedToStore ==
    op = "handle_add_entry" /\ ret.val = "add_nutrition_successful" /\ HasHeader

LastEntryIsAdded ==
    LET r == get_all_entries(CurFS)
    IN  /\ r.exc = "None"
        /\ r.val # <<>>
        /\ CarriesRow(r.val[Len(r.val)], AddedRow(arg[1], now))

\* C9 (as stated): an entry with a non-empty name appended to a store with
\* a header is the last element get_all_entries returns, its six fields
\* the strings of the values written.
C9_RoundTrip == AddedToStore => LastEntryIsAdded

\* C9 (amended): the same of an entry whose name holds a character that is
\* not whitespace.
C9_RoundTripNamed == (AddedToStore /\ ~BlankName(arg[1])) => LastEntryIsAdded

C9_Witness == AddedToStore /\ ~BlankName(arg[1]) /\ Len(file) >= 3

----------------------------------------------------------------------------
(* C10 *)

\* the data rows that are valid entries of the given name
ValidNamed(f, name) ==
    {i \in 1 .. Len(DataRows(f)) :
        RowName(DataRows(f)[i]) = name /\ ~CorruptedRow(DataRows(f)[i])}

FirstOf(S) == CHOOSE i \in S : \A j \in S : i <= j

\* C10: a reuse of a name a valid entry has appends one row with the name
\* and numbers of the first such entry and the current time; a reuse of a
\* name no valid entry has leaves the store unchanged and reports that the
\* recipe was not found.
C10_ReuseFirstValidEntry ==
    [][(op' = "handle_reuse_entry" /\ HasHeader) =>
          LET valid == ValidNamed(file, arg'[1])
              r == DataRows(file)[FirstOf(valid)]
          IN  IF valid # {}
              THEN /\ file' = Append(file, <<r[1], r[2], r[3], r[4], r[5],
                                            DateTimeStr(now)>>)
                   /\ ret'.val = "add_nutrition_successful"
              ELSE /\ file' = file
                   /\ ret'.val = "Recipe Not Found"]_vars

----------------------------------------------------------------------------
(* check_csv_file_exists, one statement at a time.  `op` is the place in   *)
(* the loop; ret.val counts the calls of create_csv_file made so far by    *)
(* the running call (a history value, not a value of the program).         *)

EnsurePlaces == {"check:open", "check:except", "check:return"}

\* exists = False; the loop is entered
EnsureCall ==
    /\ op = "menu"
    /\ op' = "check:open"
    /\ arg' = <<>>
    /\ ret' = Return(0)
    /\ UNCHANGED <<dirExists, fileExists, file, now, defaultDate>>

\* try: open(csv_file_path, "r"); exists = True
EnsureOpen ==
    /\ op = "check:open"
    /\ op' = IF fileExists THEN "check:return" ELSE "check:except"
    /\ UNCHANGED <<dirExists, fileExists, file, now, defaultDate, arg, ret>>

\* except FileNotFoundError: create_csv_file()
EnsureExcept ==
    /\ op = "check:except"
    /\ op' = "check:open"
    /\ SetFS(create_csv_file(CurFS))
    /\ ret' = Return(ret.val + 1)
    /\ UNCHANGED <<now, defaultDate, arg>>

\* `while not exists` ends; main shows the menu
EnsureReturn ==
    /\ op = "check:return"
    /\ op' = "menu"
    /\ arg' = <<>>
    /\ ret' = Return(<<>>)
    /\ UNCHANGED <<dirExists, fileExists, file, now, defaultDate>>

EnsureNext == EnsureCall \/ EnsureOpen \/ EnsureExcept \/ EnsureReturn

\* the program is single-threaded: the statement it is at is executed
EnsureSpec == Init /\ [][EnsureNext]_vars /\ WF_vars(EnsureNext)

----------------------------------------------------------------------------
(* C11 *)

\* C11: check_csv_file_exists terminates and is idempotent: a file that is
\* present is left as it is by every step, a file that was absent appears
\* holding exactly the header row, create_csv_file is called at most once
\* in a call, and every call returns, with the file present.  A second
\* call in a row therefore starts on a present file and changes nothing.
C11_EnsureIdempotent ==
    /\ [][/\ fileExists => UNCHANGED <<dirExists, fileExists, file>>
          /\ (~fileExists /\ fileExists') => file' = <<Header>>
          /\ op' \in EnsurePlaces => ret'.val <= 1
          /\ op' = "check:return" => fileExists']_vars
    /\ (op = "check:open") ~> (op = "check:return")

\* a call that found the file absent and has created it
C11_Witness ==
    /\ op = "check:return"
    /\ ret.val = 1
    /\ file = <<Header>>

----------------------------------------------------------------------------
(* get_entries_within_week against the clock: stores, with their header,   *)
(* whose rows lie on both sides of the seven-day line, read as the clock   *)
(* advances.                                                               *)

WindowPalette ==
    { <<"Pasta", "1.0", "2.0", "3.0", "4.0", DateTimeStr(StartNow)>>,
      <<"Pasta", "1.0", "2.0", "3.0", "4.0", DateTimeStr(TYesterday)>>,
      <<"Oatmeal", "1.0", "2.0", "3.0", "4.0", DateTimeStr(TSixDays)>>,
      <<"Oatmeal", "1.0", "2.0", "3.0", "4.0", DateTimeStr(TWeekAgo)>>,
      <<"Oatmeal", "1.0", "2.0", "3.0", "4.0", DateTimeStr(TOld)>>,
      <<" ", "1.0", "2.0", "3.0", "4.0", DateTimeStr(TYesterday)>>,
      <<"Eggs", "18", "12", "1", "210", "garbage">>,
      <<"Eggs", "18.0", "12.0", "1.0", "210.0">> }

WindowInit ==
    /\ now = StartNow
    /\ defaultDate = DateOf(StartNow)
    /\ op = "menu"
    /\ arg = <<>>
    /\ ret = Return(<<>>)
    /\ dirExists = TRUE
    /\ fileExists = TRUE
    /\ \E rows \in UNION {[1 .. k -> WindowPalette] : k \in 0 .. MaxRows} :
          file = <<Header>> \o rows

WindowNext == Tick \/ GetEntriesWithinWeek \/ ShowMainMenu

WindowSpec == WindowInit /\ [][WindowNext]_vars

----------------------------------------------------------------------------
(* C12 *)

\* the named rows of f whose timestamp parses to a time t >= t0 - 7 days
InWindow(f, t0) ==
    SelectSeq(NamedRows(f),
              LAMBDA r : /\ Parseable(RowTimestamp(r))
                         /\ fromisoformat(RowTimestamp(r)).val >= t0 - (7 * 24))

WindowResult ==
    /\ Len(ret.val) = Len(InWindow(file, now))
    /\ \A i \in 1 .. Len(ret.val) : CarriesRow(ret.val[i], InWindow(file, now)[i])

\* C12: get_entries_within_week returns exactly the named rows whose parsed
\* timestamp t satisfies t >= now - 7 days, now being the time of the call,
\* the boundary included and not aligned to midnight.
C12_WindowExact ==
    op = "get_entries_within_week" => (ret.exc = "None" /\ WindowResult)

\* C12, of the calls that return: the rows returned are exactly those of
\* the sliding seven-day window.
C12_WindowWhenReturned ==
    (op = "get_entries_within_week" /\ ret.exc = "None") => WindowResult

----------------------------------------------------------------------------
(* The lifecycle of the store: create_csv_file, check_csv_file_exists and  *)
(* write_nutrition_data called directly, in any order, on a store that is  *)
(* missing (with or without its directory) or holds its header and rows.   *)

StoreInit == Init /\ (fileExists => HasHeader)

CreateCsvFile ==
    /\ op = "menu"
    /\ op' = "create_csv_file"
    /\ arg' = <<>>
    /\ ret' = Return(<<>>)
    /\ SetFS(create_csv_file(CurFS))
    /\ UNCHANGED <<now, defaultDate>>

WriteNutritionData ==
    /\ op = "menu"
    /\ Len(file) <= MaxRows
    /\ \E name \in InputNames :
          LET w == write_nutrition_data(CurFS,
                       <<<<"str", name>>, <<"float", InputFloats[1]>>,
                         <<"float", InputFloats[2]>>, <<"float", InputFloats[3]>>,
                         <<"float", InputFloats[4]>>, <<"datetime", now>>>>)
          IN  /\ op' = "write_nutrition_data"
              /\ arg' = <<name>>
              /\ ret' = (IF w.exc = "None" THEN Return(<<>>) ELSE Raise(w.exc))
              /\ SetFS(w.fs)
    /\ UNCHANGED <<now, defaultDate>>

StoreNext == CreateCsvFile \/ CheckCsvFileExists \/ WriteNutritionData \/ ShowMainMenu

StoreSpec == StoreInit /\ [][StoreNext]_vars

----------------------------------------------------------------------------
(* C13 *)

\* C13: after any sequence of create_csv_file, check_csv_file_exists and
\* write_nutrition_data calls, started with the file absent or holding its
\* header, a file that exists has the header as its first row, and the row
\* an append has written is a data row after it.
C13_HeaderFirst ==
    fileExists =>
        /\ HasHeader
        /\ (op = "write_nutrition_data" /\ ret.exc = "None") =>
              (Len(file) >= 2 /\ file[Len(file)] = AddedRow(arg[1], now))

====
